---- MODULE Spec2Model ----
(***************************************************************************)
(* Colexification graphs: the graph builder (graph.py), the row reader     *)
(* (graph.get_rows), the collision audit (collisions.py, ids.py), the      *)
(* FNV-1a hash (fnv.py) and the translation extractor                      *)
(* (wordsenses.get_translations).                                          *)
(*                                                                         *)
(* Strings of the TSV fields are coded by naturals in code-point order, so *)
(* that Python's comparison of two fields is < on their codes.  A row is   *)
(* the sequence of its fields.  A Python dict is a record                  *)
(* [keys |-> insertion-ordered sequence of keys, val |-> function].        *)
(***************************************************************************)
EXTENDS Integers, Sequences, FiniteSets, TLC

VARIABLES
    pc,                 \* position of graph.main
    sense_cutoff,       \* args.sense_cutoff
    edge_cutoff,        \* args.edge_cutoff
    file,               \* history: the set of rows read from args.tsv so far
    translation_senses, \* dict[Translation, set[Sense]]
    sense_languages,    \* dict[Sense, set[Language]] (function; order unused)
    senses,             \* the retained concepts (graph.py:108)
    kpos,               \* items of translation_senses already iterated
    graph_languages,    \* dict[Edge, set[Language]]
    ranked,             \* graph.most_common() inside write_graph
    out,                \* rows written to stdout by write_graph
    rfile,              \* get_rows: the rows of the TSV file, in order
    silent,             \* get_rows: the silent flag
    rpos,               \* get_rows: rows of rfile consumed
    yielded,            \* get_rows: rows yielded so far, in order
    data,               \* fnv_1a: the input bytes
    prime,              \* fnv_1a: prime
    offset_basis,       \* fnv_1a: offset_basis
    size,               \* fnv_1a: the number of bytes of the hash
    hash_,              \* fnv_1a: the accumulator
    consumed,           \* fnv_1a: bytes of data already consumed by the loop
    digest,             \* fnv_1a: the value returned
    fnv_pc,             \* position of fnv_1a
    crows,              \* history: the set of rows the audit read so far
    concepts,           \* collisions.main: concepts
    todo,               \* collisions.main: concepts the second loop has not visited
    ids,                \* collisions.main: ids
    ipos,               \* collisions.main: items of ids the third loop has visited
    total,              \* collisions.main: total
    stdout,             \* collisions.main: the lines printed
    col_pc,             \* position of collisions.main
    entry,              \* get_translations: data, one dictionary entry
    tpos,               \* get_translations: translations of the current list visited
    spos,               \* get_translations: senses visited
    sense_description,  \* get_translations: sense_description
    synonyms,           \* get_translations: get_synonyms(sense), not yet yielded
    emitted,            \* get_translations: the translations yielded, in order
    warnings,           \* get_translations: the kinds of the warnings logged
    tr_pc,              \* position of get_translations
    shard_pos,          \* sharded run: records handed to the shards so far
    shard_ts,           \* sharded run: translation_senses of each shard
    shard_sl,           \* sharded run: sense_languages of each shard
    merged_ts,          \* sharded run: the union of the shards' translation_senses
    merged_sl,          \* sharded run: the union of the shards' sense_languages
    merged_senses,      \* sharded run: the concepts retained on merged_sl
    shard_todo,         \* sharded run: shards whose edges are not built yet
    shard_edges,        \* sharded run: graph_languages of each shard
    merged_edges,       \* sharded run: the union of the shards' graph_languages
    rebuilt_edges,      \* sharded run: graph_languages built from merged_ts
    shard_pc            \* position of the sharded run

graphVars == <<pc, sense_cutoff, edge_cutoff, file, translation_senses,
               sense_languages, senses, kpos, graph_languages, ranked, out>>
rowsVars == <<rfile, silent, rpos, yielded>>
fnvVars == <<data, prime, offset_basis, size, hash_, consumed, digest, fnv_pc>>
colVars == <<crows, concepts, todo, ids, ipos, total, stdout, col_pc>>
trVars == <<entry, tpos, spos, sense_description, synonyms, emitted, warnings, tr_pc>>
shardVars == <<shard_pos, shard_ts, shard_sl, merged_ts, merged_sl, merged_senses,
               shard_todo, shard_edges, merged_edges, rebuilt_edges, shard_pc>>
auxVars == <<fnvVars, colVars, trVars, shardVars>>

\* ------------------------------------------------------------------ bounds
MaxRows == 5            \* distinct rows of the input file in Spec
MaxCutoff == 2          \* cutoffs are drawn from 0..MaxCutoff
MaxFileLen == 3         \* rows of the input file in SpecRows

\* the number of fields get_rows unpacks a row into
FieldCount == 5

Languages == {1, 2}
Words == {1, 2}
\* (id, sense, gloss): two glosses of one (id, sense), and a concept whose id
\* is larger while its sense and gloss are not.
Concepts == {<<1, 1, 1>>, <<1, 1, 2>>, <<2, 2, 1>>}
Cutoffs == 0..MaxCutoff

\* (language, word): two words of language 1 and one word of language 2
Translations == {t \in Languages \X Words : t # <<2, 2>>}
GoodRows == {<<t[1], t[2], c[1], c[2], c[3]>> : t \in Translations, c \in Concepts}
\* a row with a missing column
BadRows == {<<1, 1, 1, 1>>}
Rows == GoodRows \cup BadRows

\* ------------------------------------------------------------------ dicts
EmptyDict == [keys |-> <<>>, val |-> <<>>]

Has(d, k) == k \in DOMAIN d.val

\* d[k] = {x}: the set of a key is replaced, not extended
SetDefaultAssign(d, k, x) ==
    IF Has(d, k)
    THEN [d EXCEPT !.val[k] = {x}]
    ELSE [keys |-> Append(d.keys, k), val |-> (k :> {x}) @@ d.val]

\* d.setdefault(k, set()).add(x)
SetDefaultAdd(d, k, x) ==
    IF Has(d, k)
    THEN [d EXCEPT !.val[k] = @ \cup {x}]
    ELSE [keys |-> Append(d.keys, k), val |-> (k :> {x}) @@ d.val]

\* the same on a dict whose key order is never observed
FnSetDefaultAdd(f, k, x) ==
    IF k \in DOMAIN f
    THEN [f EXCEPT ![k] = @ \cup {x}]
    ELSE (k :> {x}) @@ f

\* ------------------------------------------------------------------ get_rows
\* get_rows taking only a short row for an invalid one
GetRowsOutcomeShortOnly(row, quiet) ==
    IF Len(row) >= FieldCount THEN "yield"
    ELSE IF quiet THEN "skip"
    ELSE "raise"

\* What get_rows does with one row of the file: the unpacking into five names
\* raises ValueError unless the row has exactly five fields.
GetRowsOutcome(row, quiet) ==
    IF Len(row) = FieldCount THEN "yield"
    ELSE IF quiet THEN "skip"
    ELSE "raise"

\* ------------------------------------------------------------------ main, pass 1
TranslationOf(row) == <<row[1], row[2]>>
ConceptOf(row) == <<row[3], row[4], row[5]>>

AddTranslationSense(ts, row) == SetDefaultAdd(ts, TranslationOf(row), ConceptOf(row))
AddSenseLanguage(sl, row) == FnSetDefaultAdd(sl, ConceptOf(row), row[1])

\* ------------------------------------------------------------------ sense cutoff
\* the cutoff compared off by one
RetainedSensesOffByOne(sl, cutoff) == {s \in DOMAIN sl : Cardinality(sl[s]) + 1 >= cutoff}

RetainedSenses(sl, cutoff) == {s \in DOMAIN sl : Cardinality(sl[s]) >= cutoff}

\* ------------------------------------------------------------------ main, pass 2
\* Python's order on tuples of strings: lexicographic.
TupleLess(a, b) ==
    \E i \in 1..3 : a[i] < b[i] /\ \A j \in 1..(i - 1) : a[j] = b[j]

RECURSIVE Sorted(_)
Sorted(S) ==
    IF S = {} THEN <<>>
    ELSE LET m == CHOOSE x \in S : \A y \in S : y = x \/ TupleLess(x, y)
         IN  <<m>> \o Sorted(S \ {m})

\* the inner loop running up to and including i
RECURSIVE PairsUpToWithSelf(_, _)
PairsUpToWithSelf(nodes, i) ==
    IF i < 2 THEN <<>>
    ELSE PairsUpToWithSelf(nodes, i - 1) \o [j \in 1..i |-> <<nodes[j], nodes[i]>>]

\* the keys (nodes[j], nodes[i]) in the order the two nested loops visit them
RECURSIVE PairsUpTo(_, _)
PairsUpTo(nodes, i) ==
    IF i < 2 THEN <<>>
    ELSE PairsUpTo(nodes, i - 1) \o [j \in 1..(i - 1) |-> <<nodes[j], nodes[i]>>]

NodePairs(nodes) == PairsUpTo(nodes, Len(nodes))

NodesOf(word_senses, retained) == Sorted({s \in word_senses : s \in retained})

RECURSIVE AddPairs(_, _, _)
AddPairs(g, pairs, language) ==
    IF pairs = <<>> THEN g
    ELSE AddPairs(SetDefaultAdd(g, Head(pairs), language), Tail(pairs), language)

\* the edge collecting the (language, word) pairs instead of the languages
AddEdgesOfPerWord(g, translation, word_senses, retained) ==
    AddPairs(g, NodePairs(NodesOf(word_senses, retained)), translation)

\* one iteration of the loop over translation_senses.items()
AddEdgesOf(g, translation, word_senses, retained) ==
    AddPairs(g, NodePairs(NodesOf(word_senses, retained)), translation[1])

\* ------------------------------------------------------------------ edge cutoff, write_graph
\* Counter({edge: weight for ... if weight >= edge_cutoff}), in insertion order
RECURSIVE CounterItems(_, _, _)
CounterItems(g, keys, cutoff) ==
    IF keys = <<>> THEN <<>>
    ELSE LET weight == Cardinality(g.val[Head(keys)])
             rest == CounterItems(g, Tail(keys), cutoff)
         IN  IF weight >= cutoff THEN <<<<Head(keys), weight>>>> \o rest ELSE rest

CounterOf(g, cutoff) == CounterItems(g, g.keys, cutoff)

\* sorted(items, key=itemgetter(1), reverse=True): stable, largest count first
RECURSIVE InsertByWeight(_, _)
InsertByWeight(sorted, item) ==
    IF sorted = <<>> THEN <<item>>
    ELSE IF Head(sorted)[2] >= item[2]
         THEN <<Head(sorted)>> \o InsertByWeight(Tail(sorted), item)
         ELSE <<item>> \o sorted

\* the counter written in insertion order
MostCommonUnsorted(items) == items

RECURSIVE MostCommon(_)
MostCommon(items) ==
    IF items = <<>> THEN <<>>
    ELSE InsertByWeight(MostCommon(SubSeq(items, 1, Len(items) - 1)), items[Len(items)])

\* the row write_graph writes for one item of the counter
GraphRow(item) ==
    LET source == item[1][1]
        target == item[1][2]
    IN  <<source[1], source[2], source[3], target[1], target[2], target[3], item[2]>>

\* ------------------------------------------------------------------ fnv_1a
MaxDataLen == 3         \* bytes of the input of fnv_1a in SpecFnv

RECURSIVE Pow2(_)
Pow2(n) == IF n = 0 THEN 1 ELSE 2 * Pow2(n - 1)

\* a ^ b on non-negative integers
RECURSIVE Xor(_, _)
Xor(a, b) ==
    IF a = 0 THEN b
    ELSE IF b = 0 THEN a
    ELSE (((a % 2) + (b % 2)) % 2) + 2 * Xor(a \div 2, b \div 2)

\* a & b on non-negative integers
RECURSIVE BitAnd(_, _)
BitAnd(a, b) ==
    IF a = 0 \/ b = 0 THEN 0
    ELSE (a % 2) * (b % 2) + 2 * BitAnd(a \div 2, b \div 2)

\* mask = (1 << (size << 3)) - 1
MaskOf(n) == Pow2(n * 8) - 1

\* the loop body with the multiplication before the XOR (FNV-1)
FnvRoundMultiplyFirst(h, byte, p, mask) == BitAnd(Xor(h * p, byte), mask)

\* the loop body: hash_ ^= byte; hash_ *= prime; hash_ &= mask
FnvRound(h, byte, p, mask) == BitAnd(Xor(h, byte) * p, mask)

\* the outcome of a to_bytes that raises OverflowError (no byte is negative)
OverflowError == <<-1>>

\* int.to_bytes(n): big-endian, OverflowError when the value does not fit
ToBytes(h, n) ==
    IF h >= Pow2(n * 8) THEN OverflowError
    ELSE [i \in 1..n |-> (h \div Pow2((n - i) * 8)) % 256]

RECURSIVE FnvLoop(_, _, _, _)
FnvLoop(h, bytes, p, mask) ==
    IF bytes = <<>> THEN h
    ELSE FnvLoop(FnvRound(h, Head(bytes), p, mask), Tail(bytes), p, mask)

\* fnv_1a(data, prime, offset_basis, size)
Fnv1a(bytes, p, basis, n) == ToBytes(FnvLoop(basis, bytes, p, MaskOf(n)), n)

FnvBytes == {0, 1, 97, 255}
\* the low 16 bits of the 32-bit and of the 64-bit prime, and 2
FnvPrimes == {2, 403, 435}
FnvSizes == {0, 1, 2}
FnvBases == {0, 197, 40389}
FnvInputs == UNION {[1..n -> FnvBytes] : n \in 0..MaxDataLen}

InitFnvIdle ==
    /\ data = <<>>
    /\ prime = 0
    /\ offset_basis = 0
    /\ size = 0
    /\ hash_ = 0
    /\ consumed = 0
    /\ digest = <<>>
    /\ fnv_pc = "idle"

InitFnv ==
    /\ data \in FnvInputs
    /\ prime \in FnvPrimes
    /\ offset_basis \in FnvBases
    /\ size \in FnvSizes
    /\ hash_ = offset_basis
    /\ consumed = 0
    /\ digest = <<>>
    /\ fnv_pc = "loop"

\* ------------------------------------------------------------------ concept ids
\* A string is the sequence of its code points.
MaxAuditRows == 3       \* distinct rows of the file of the audit
\* The digest is followed in its HashBytes low-order bytes: XOR, product and
\* mask act on the low bits alone, so these are the low bytes of fnv_1a_64.
HashBytes == 1
\* prime and offset_basis of fnv_1a_64, their low 16 bits
FnvPrime64 == 435
FnvOffsetBasis64 == 8997
Tab == 9

\* str.encode(): UTF-8, for code points below 2048
RECURSIVE Encode(_)
Encode(str) ==
    IF str = <<>> THEN <<>>
    ELSE LET cp == Head(str)
         IN  (IF cp < 128 THEN <<cp>>
              ELSE <<192 + (cp \div 64), 128 + (cp % 64)>>) \o Encode(Tail(str))

Fnv1a64(bytes) == Fnv1a(bytes, FnvPrime64, FnvOffsetBasis64, HashBytes)

\* b58encode: a '1' (digit 0) for each leading zero byte, then the base-58
\* digits of the big-endian value of the rest; a digit is its place in the
\* alphabet
RECURSIVE LeadingZeros(_)
LeadingZeros(bytes) ==
    IF bytes = <<>> \/ Head(bytes) # 0 THEN 0 ELSE 1 + LeadingZeros(Tail(bytes))

RECURSIVE ValueOf(_)
ValueOf(bytes) ==
    IF bytes = <<>> THEN 0
    ELSE 256 * ValueOf(SubSeq(bytes, 1, Len(bytes) - 1)) + bytes[Len(bytes)]

RECURSIVE B58Digits(_)
B58Digits(n) == IF n = 0 THEN <<>> ELSE B58Digits(n \div 58) \o <<n % 58>>

B58Encode(bytes) ==
    [i \in 1..LeadingZeros(bytes) |-> 0] \o B58Digits(ValueOf(bytes))

\* ids.compute_concept_id(word, sense)
ComputeConceptId(word, sense) == B58Encode(Fnv1a64(Encode(word \o <<Tab>> \o sense)))

\* ------------------------------------------------------------------ collisions.main
\* the pair read from the second and third column
AuditPairOfWordSense(row) == <<row[2], row[3]>>

\* for _, _, word, sense in reader(...): concepts.add((word, sense))
AuditPairOf(row) == <<row[3], row[4]>>

\* key = f"{concept[0]}\t{concept[1]}".encode(); b58encode(fnv_hash(key))
AuditId(concept) == B58Encode(Fnv1a64(Encode(concept[1] \o <<Tab>> \o concept[2])))

\* every group taken for a collision
IsCollisionAny(group) == Cardinality(group) >= 1

\* len(collisions) > 1
IsCollision(group) == Cardinality(group) > 1

\* the columns of the rows of the audit: language, word, sense, gloss; a field
\* may hold a tab (the csv reader unquotes a quoted field)
\* (language, word): one word in each of two languages
AuditTranslations == {<<<<97>>, <<97>>>>, <<<<98>>, <<98>>>>}
AuditSenses == {<<97>>, <<97, Tab, 98>>}
AuditGlosses == {<<97>>, <<98, Tab, 97>>, <<233>>}
AuditGoodRows ==
    {<<t[1], t[2], s, g>> : t \in AuditTranslations, s \in AuditSenses, g \in AuditGlosses}
\* a row of the input of the graph builder, with its five columns
AuditBadRows == {<<<<97>>, <<97>>, <<97>>, <<97>>, <<97>>>>}
AuditRows == AuditGoodRows \cup AuditBadRows

InitColIdle ==
    /\ crows = {}
    /\ concepts = {}
    /\ todo = {}
    /\ ids = EmptyDict
    /\ ipos = 0
    /\ total = 0
    /\ stdout = <<>>
    /\ col_pc = "idle"

InitCol ==
    /\ crows = {}
    /\ concepts = {}
    /\ todo = {}
    /\ ids = EmptyDict
    /\ ipos = 0
    /\ total = 0
    /\ stdout = <<>>
    /\ col_pc = "read"

ReadAuditRow ==
    /\ col_pc = "read"
    /\ \E row \in AuditRows :
        /\ Len(row) = 4
        /\ Cardinality(crows \cup {row}) <= MaxAuditRows
        /\ crows' = crows \cup {row}
        /\ concepts' = concepts \cup {AuditPairOf(row)}
    /\ UNCHANGED <<todo, ids, ipos, total, stdout, col_pc, graphVars, rowsVars, fnvVars, trVars, shardVars>>

\* the unpacking into four names raises ValueError, which nothing catches
ReadAuditRowError ==
    /\ col_pc = "read"
    /\ \E row \in AuditRows :
        /\ Len(row) # 4
        /\ Cardinality(crows \cup {row}) <= MaxAuditRows
        /\ crows' = crows \cup {row}
    /\ col_pc' = "error"
    /\ UNCHANGED <<concepts, todo, ids, ipos, total, stdout, graphVars, rowsVars, fnvVars, trVars, shardVars>>

EndOfAudit ==
    /\ col_pc = "read"
    /\ todo' = concepts
    /\ col_pc' = "ids"
    /\ UNCHANGED <<crows, concepts, ids, ipos, total, stdout, graphVars, rowsVars, fnvVars, trVars, shardVars>>

\* one iteration of the loop over the set concepts, in the order of the set
ComputeId ==
    /\ col_pc = "ids"
    /\ \E concept \in todo :
        /\ ids' = SetDefaultAdd(ids, AuditId(concept), concept)
        /\ todo' = todo \ {concept}
    /\ UNCHANGED <<crows, concepts, ipos, total, stdout, col_pc, graphVars, rowsVars, fnvVars, trVars, shardVars>>

IdsComputed ==
    /\ col_pc = "ids"
    /\ todo = {}
    /\ col_pc' = "scan"
    /\ UNCHANGED <<crows, concepts, todo, ids, ipos, total, stdout, graphVars, rowsVars, fnvVars, trVars, shardVars>>

ScanCollision ==
    /\ col_pc = "scan"
    /\ ipos < Len(ids.keys)
    /\ IsCollision(ids.val[ids.keys[ipos + 1]])
    /\ total' = total + 1
    /\ stdout' = Append(stdout, [kind |-> "group", group |-> ids.val[ids.keys[ipos + 1]]])
    /\ ipos' = ipos + 1
    /\ UNCHANGED <<crows, concepts, todo, ids, col_pc, graphVars, rowsVars, fnvVars, trVars, shardVars>>

ScanUnique ==
    /\ col_pc = "scan"
    /\ ipos < Len(ids.keys)
    /\ ~IsCollision(ids.val[ids.keys[ipos + 1]])
    /\ ipos' = ipos + 1
    /\ UNCHANGED <<crows, concepts, todo, ids, total, stdout, col_pc, graphVars, rowsVars, fnvVars, trVars, shardVars>>

\* if total > 0: print("Found", total, "collisions")
ReportCount ==
    /\ col_pc = "scan"
    /\ ipos = Len(ids.keys)
    /\ total > 0
    /\ stdout' = Append(stdout, [kind |-> "found", count |-> total])
    /\ col_pc' = "done"
    /\ UNCHANGED <<crows, concepts, todo, ids, ipos, total, graphVars, rowsVars, fnvVars, trVars, shardVars>>

ReturnQuietly ==
    /\ col_pc = "scan"
    /\ ipos = Len(ids.keys)
    /\ ~(total > 0)
    /\ col_pc' = "done"
    /\ UNCHANGED <<crows, concepts, todo, ids, ipos, total, stdout, graphVars, rowsVars, fnvVars, trVars, shardVars>>

NextCol ==
    \/ ReadAuditRow
    \/ ReadAuditRowError
    \/ EndOfAudit
    \/ ComputeId
    \/ IdsComputed
    \/ ScanCollision
    \/ ScanUnique
    \/ ReportCount
    \/ ReturnQuietly

\* ------------------------------------------------------------------ get_translations
MaxTranslations == 2    \* translations of one sense of the entry

\* what dict.get gives for a key that is absent
None == "<None>"

\* the translations of the dictionary: code, word and sense each absent, empty
\* or filled (the other keys are handed on untouched and are left out)
TranslationCodes == {None, "fr"}
TranslationWords == {"", "mot"}
TranslationSenses == {None, "", "gloss"}
TranslationSchemas ==
    [code : TranslationCodes, word : TranslationWords, sense : TranslationSenses]
SynonymWords == {"", "syn"}
SenseSchemas ==
    [translations : UNION {[1..n -> TranslationSchemas] : n \in 0..MaxTranslations},
     synonyms : UNION {[1..n -> SynonymWords] : n \in 0..1}]
\* get_words asserts that an entry has senses
Schemas ==
    [lang_code : {"", "en"},
     translations : UNION {[1..n -> TranslationSchemas] : n \in 0..1},
     senses : [1..1 -> SenseSchemas]]

\* not x, for x a string or None
Falsy(x) == x = None \/ x = ""

CheckTranslation(translation) ==
    IF Falsy(translation.code) THEN "missing-code"
    ELSE IF Falsy(translation.word) THEN "missing-word"
    ELSE IF translation.sense = None THEN "missing-sense"
    ELSE None

\* error in ("missing-code", "missing-word"): continue
Skipped(translation) == CheckTranslation(translation) \in {"missing-code", "missing-word"}

Warned(log, translation) ==
    IF CheckTranslation(translation) # None
    THEN Append(log, CheckTranslation(translation))
    ELSE log

\* get_synonyms: no synonym at all when one of them has an empty word
GetSynonyms(sense) ==
    IF \E i \in 1..Len(sense.synonyms) : Falsy(sense.synonyms[i]) THEN <<>>
    ELSE sense.synonyms

InitTrIdle ==
    /\ entry = [lang_code |-> "", translations |-> <<>>, senses |-> <<>>]
    /\ tpos = 0
    /\ spos = 0
    /\ sense_description = None
    /\ synonyms = <<>>
    /\ emitted = <<>>
    /\ warnings = <<>>
    /\ tr_pc = "idle"

InitTr ==
    /\ entry \in Schemas
    /\ tpos = 0
    /\ spos = 0
    /\ sense_description = None
    /\ synonyms = <<>>
    /\ emitted = <<>>
    /\ warnings = <<>>
    /\ tr_pc = "top"

\* the loop over data.get("translations", [])
TopYield ==
    /\ tr_pc = "top"
    /\ tpos < Len(entry.translations)
    /\ ~Skipped(entry.translations[tpos + 1])
    /\ warnings' = Warned(warnings, entry.translations[tpos + 1])
    /\ emitted' = Append(emitted, entry.translations[tpos + 1])
    /\ tpos' = tpos + 1
    /\ UNCHANGED <<entry, spos, sense_description, synonyms, tr_pc,
                   graphVars, rowsVars, fnvVars, colVars, shardVars>>

TopSkip ==
    /\ tr_pc = "top"
    /\ tpos < Len(entry.translations)
    /\ Skipped(entry.translations[tpos + 1])
    /\ warnings' = Warned(warnings, entry.translations[tpos + 1])
    /\ tpos' = tpos + 1
    /\ UNCHANGED <<entry, spos, sense_description, synonyms, emitted, tr_pc,
                   graphVars, rowsVars, fnvVars, colVars, shardVars>>

\* the next sense of the entry: sense_description = None
NextSense ==
    /\ \/ tr_pc = "top" /\ tpos = Len(entry.translations)
       \/ tr_pc = "synonyms" /\ synonyms = <<>>
    /\ spos < Len(entry.senses)
    /\ spos' = spos + 1
    /\ tpos' = 0
    /\ sense_description' = None
    /\ tr_pc' = "sense"
    /\ UNCHANGED <<entry, synonyms, emitted, warnings,
                   graphVars, rowsVars, fnvVars, colVars, shardVars>>

\* the loop over sense.get("translations", [])
SenseYield ==
    /\ tr_pc = "sense"
    /\ tpos < Len(entry.senses[spos].translations)
    /\ LET translation == entry.senses[spos].translations[tpos + 1]
       IN  /\ ~Skipped(translation)
           /\ warnings' = Warned(warnings, translation)
           /\ emitted' = Append(emitted, translation)
           /\ sense_description' =
                IF sense_description = None THEN translation.sense ELSE sense_description
    /\ tpos' = tpos + 1
    /\ UNCHANGED <<entry, spos, synonyms, tr_pc, graphVars, rowsVars, fnvVars, colVars, shardVars>>

SenseSkip ==
    /\ tr_pc = "sense"
    /\ tpos < Len(entry.senses[spos].translations)
    /\ Skipped(entry.senses[spos].translations[tpos + 1])
    /\ warnings' = Warned(warnings, entry.senses[spos].translations[tpos + 1])
    /\ tpos' = tpos + 1
    /\ UNCHANGED <<entry, spos, sense_description, synonyms, emitted, tr_pc,
                   graphVars, rowsVars, fnvVars, colVars, shardVars>>

\* if sense_description is not None: for synonym in get_synonyms(sense)
SynonymsOfSense ==
    /\ tr_pc = "sense"
    /\ tpos = Len(entry.senses[spos].translations)
    /\ synonyms' = IF sense_description # None THEN GetSynonyms(entry.senses[spos]) ELSE <<>>
    /\ tr_pc' = "synonyms"
    /\ UNCHANGED <<entry, tpos, spos, sense_description, emitted, warnings,
                   graphVars, rowsVars, fnvVars, colVars, shardVars>>

SynonymYield ==
    /\ tr_pc = "synonyms"
    /\ synonyms # <<>>
    /\ emitted' = Append(emitted, [code |-> entry.lang_code, word |-> Head(synonyms),
                                   sense |-> sense_description])
    /\ synonyms' = Tail(synonyms)
    /\ UNCHANGED <<entry, tpos, spos, sense_description, warnings, tr_pc,
                   graphVars, rowsVars, fnvVars, colVars, shardVars>>

TrReturn ==
    /\ \/ tr_pc = "top" /\ tpos = Len(entry.translations)
       \/ tr_pc = "synonyms" /\ synonyms = <<>>
    /\ spos = Len(entry.senses)
    /\ tr_pc' = "done"
    /\ UNCHANGED <<entry, tpos, spos, sense_description, synonyms, emitted, warnings,
                   graphVars, rowsVars, fnvVars, colVars, shardVars>>

\* ------------------------------------------------------------------ actions of main
InitGraph ==
    /\ pc = "read"
    /\ sense_cutoff \in Cutoffs
    /\ edge_cutoff \in Cutoffs
    /\ file = {}
    /\ translation_senses = EmptyDict
    /\ sense_languages = <<>>
    /\ senses = {}
    /\ kpos = 0
    /\ graph_languages = EmptyDict
    /\ ranked = <<>>
    /\ out = <<>>

\* main is not running
InitGraphIdle ==
    /\ pc = "idle"
    /\ sense_cutoff = 0
    /\ edge_cutoff = 0
    /\ file = {}
    /\ translation_senses = EmptyDict
    /\ sense_languages = <<>>
    /\ senses = {}
    /\ kpos = 0
    /\ graph_languages = EmptyDict
    /\ ranked = <<>>
    /\ out = <<>>

\* the body of the loop over get_rows(args.tsv, silent=True) for one row
Aggregate(row) ==
    /\ translation_senses' = AddTranslationSense(translation_senses, row)
    /\ sense_languages' = AddSenseLanguage(sense_languages, row)

ReadRow ==
    /\ pc = "read"
    /\ \E row \in Rows :
        /\ Cardinality(file \cup {row}) <= MaxRows
        /\ file' = file \cup {row}
        /\ IF GetRowsOutcome(row, TRUE) = "yield"
           THEN Aggregate(row)
           ELSE UNCHANGED <<translation_senses, sense_languages>>
    /\ UNCHANGED <<pc, sense_cutoff, edge_cutoff, senses, kpos, graph_languages,
                   ranked, out, rowsVars, auxVars>>

\* the file is exhausted: the sense cutoff is taken
SenseCutoff ==
    /\ pc = "filter"
    /\ senses' = RetainedSenses(sense_languages, sense_cutoff)
    /\ pc' = "edges"
    /\ UNCHANGED <<sense_cutoff, edge_cutoff, file, translation_senses,
                   sense_languages, kpos, graph_languages, ranked, out, rowsVars, auxVars>>

EndOfFile ==
    /\ pc = "read"
    /\ pc' = "filter"
    /\ UNCHANGED <<sense_cutoff, edge_cutoff, file, translation_senses,
                   sense_languages, senses, kpos, graph_languages, ranked, out,
                   rowsVars, auxVars>>

\* edge construction dropping the concepts that are not retained from
\* translation_senses as it goes
BuildEdgesInPlace ==
    /\ pc = "edges"
    /\ kpos < Len(translation_senses.keys)
    /\ LET translation == translation_senses.keys[kpos + 1]
       IN  /\ graph_languages' = AddEdgesOf(graph_languages, translation,
                                            translation_senses.val[translation], senses)
           /\ translation_senses' =
                [translation_senses EXCEPT !.val[translation] = @ \cap senses]
    /\ kpos' = kpos + 1
    /\ UNCHANGED <<pc, sense_cutoff, edge_cutoff, file,
                   sense_languages, senses, ranked, out, rowsVars, auxVars>>

BuildEdges ==
    /\ pc = "edges"
    /\ kpos < Len(translation_senses.keys)
    /\ LET translation == translation_senses.keys[kpos + 1]
       IN  graph_languages' = AddEdgesOf(graph_languages, translation,
                                         translation_senses.val[translation], senses)
    /\ kpos' = kpos + 1
    /\ UNCHANGED <<pc, sense_cutoff, edge_cutoff, file, translation_senses,
                   sense_languages, senses, ranked, out, rowsVars, auxVars>>

\* the Counter is built and write_graph ranks it
EdgeCutoff ==
    /\ pc = "edges"
    /\ kpos = Len(translation_senses.keys)
    /\ ranked' = MostCommon(CounterOf(graph_languages, edge_cutoff))
    /\ pc' = "write"
    /\ UNCHANGED <<sense_cutoff, edge_cutoff, file, translation_senses,
                   sense_languages, senses, kpos, graph_languages, out, rowsVars, auxVars>>

WriteRow ==
    /\ pc = "write"
    /\ Len(out) < Len(ranked)
    /\ out' = Append(out, GraphRow(ranked[Len(out) + 1]))
    /\ UNCHANGED <<pc, sense_cutoff, edge_cutoff, file, translation_senses,
                   sense_languages, senses, kpos, graph_languages, ranked, rowsVars, auxVars>>

Return ==
    /\ pc = "write"
    /\ Len(out) = Len(ranked)
    /\ pc' = "done"
    /\ UNCHANGED <<sense_cutoff, edge_cutoff, file, translation_senses,
                   sense_languages, senses, kpos, graph_languages, ranked, out,
                   rowsVars, auxVars>>

InitRowsIdle ==
    /\ rfile = <<>>
    /\ silent = TRUE
    /\ rpos = 0
    /\ yielded = <<>>

\* ------------------------------------------------------------------ main as a function
RECURSIVE AggregateTS(_, _)
AggregateTS(ts, rows) ==
    IF rows = <<>> THEN ts
    ELSE AggregateTS(AddTranslationSense(ts, Head(rows)), Tail(rows))

RECURSIVE AggregateSL(_, _)
AggregateSL(sl, rows) ==
    IF rows = <<>> THEN sl
    ELSE AggregateSL(AddSenseLanguage(sl, Head(rows)), Tail(rows))

RECURSIVE EdgesFrom(_, _, _, _)
EdgesFrom(g, ts, keys, retained) ==
    IF keys = <<>> THEN g
    ELSE EdgesFrom(AddEdgesOf(g, Head(keys), ts.val[Head(keys)], retained),
                   ts, Tail(keys), retained)

\* graph_languages of main over rows that all have five fields
MainGraphLanguages(rows, scut) ==
    LET ts == AggregateTS(EmptyDict, rows)
        retained == RetainedSenses(AggregateSL(<<>>, rows), scut)
    IN  EdgesFrom(EmptyDict, ts, ts.keys, retained)

\* what main writes over rows that all have five fields
MainOutput(rows, scut, ecut) ==
    LET items == MostCommon(CounterOf(MainGraphLanguages(rows, scut), ecut))
    IN  [i \in 1..Len(items) |-> GraphRow(items[i])]

\* ------------------------------------------------------------------ a sharded run
\* The records of the input are handed out to shards.  Each shard runs the
\* first pass of main over its records; the shards' translation_senses and
\* sense_languages are merged by key-wise set union and the concepts are
\* retained on the merged sense_languages; each shard runs the second pass of
\* main over its own translation_senses with the retained concepts, and the
\* shards' graph_languages are merged by key-wise set union.  One run of main
\* reads the same records in the order in which they are handed out.
MaxShardRows == 4       \* rows of the input file in SpecShard

Shards == {1, 2}

\* both senses of one word in two languages, and a row with a missing column
ShardRows == {<<1, 1, 1, 1, 1>>, <<1, 1, 2, 2, 1>>,
              <<2, 1, 1, 1, 1>>, <<2, 1, 2, 2, 1>>, <<1, 1, 1, 1>>}

\* for k, v in e.items(): d.setdefault(k, set()).update(v)
RECURSIVE MergeInto(_, _, _)
MergeInto(d, e, keys) ==
    IF keys = <<>> THEN d
    ELSE LET k == Head(keys)
             merged == IF Has(d, k)
                       THEN [d EXCEPT !.val[k] = @ \cup e.val[k]]
                       ELSE [keys |-> Append(d.keys, k), val |-> (k :> e.val[k]) @@ d.val]
         IN  MergeInto(merged, e, Tail(keys))

\* key-wise set union of two dicts
MergeDicts(d, e) == MergeInto(d, e, e.keys)

\* the same on dicts whose key order is never observed
MergeFns(f, g) ==
    [k \in DOMAIN f \cup DOMAIN g |->
        (IF k \in DOMAIN f THEN f[k] ELSE {}) \cup (IF k \in DOMAIN g THEN g[k] ELSE {})]

InitShards ==
    /\ shard_pc = "map"
    /\ shard_pos = 0
    /\ shard_ts = [k \in Shards |-> EmptyDict]
    /\ shard_sl = [k \in Shards |-> <<>>]
    /\ merged_ts = EmptyDict
    /\ merged_sl = <<>>
    /\ merged_senses = {}
    /\ shard_todo = {}
    /\ shard_edges = [k \in Shards |-> EmptyDict]
    /\ merged_edges = EmptyDict
    /\ rebuilt_edges = EmptyDict

\* no sharded run
InitShardsIdle ==
    /\ shard_pc = "idle"
    /\ shard_pos = 0
    /\ shard_ts = [k \in Shards |-> EmptyDict]
    /\ shard_sl = [k \in Shards |-> <<>>]
    /\ merged_ts = EmptyDict
    /\ merged_sl = <<>>
    /\ merged_senses = {}
    /\ shard_todo = {}
    /\ shard_edges = [k \in Shards |-> EmptyDict]
    /\ merged_edges = EmptyDict
    /\ rebuilt_edges = EmptyDict

\* the next row of the file is read by the run over the whole input and by
\* the shard it is handed to: the body of the first loop of main in both
ShardRead ==
    /\ pc = "read"
    /\ shard_pc = "map"
    /\ shard_pos < MaxShardRows
    /\ \E row \in ShardRows, k \in Shards :
        /\ file' = file \cup {row}
        /\ IF GetRowsOutcome(row, TRUE) = "yield"
           THEN /\ Aggregate(row)
                /\ shard_ts' = [shard_ts EXCEPT ![k] = AddTranslationSense(@, row)]
                /\ shard_sl' = [shard_sl EXCEPT ![k] = AddSenseLanguage(@, row)]
           ELSE UNCHANGED <<translation_senses, sense_languages, shard_ts, shard_sl>>
    /\ shard_pos' = shard_pos + 1
    /\ UNCHANGED <<pc, sense_cutoff, edge_cutoff, senses, kpos, graph_languages,
                   ranked, out, merged_ts, merged_sl, merged_senses, shard_todo,
                   shard_edges, merged_edges, rebuilt_edges, shard_pc,
                   rowsVars, fnvVars, colVars, trVars>>

\* the input is exhausted: the shards' mappings of the first pass are merged
\* and the sense cutoff is taken on the merged sense_languages
MergeAggregates ==
    /\ pc # "read"
    /\ shard_pc = "map"
    /\ merged_ts' = MergeDicts(shard_ts[1], shard_ts[2])
    /\ merged_sl' = MergeFns(shard_sl[1], shard_sl[2])
    /\ merged_senses' = RetainedSenses(MergeFns(shard_sl[1], shard_sl[2]), sense_cutoff)
    /\ shard_todo' = Shards
    /\ shard_pc' = "edges"
    /\ UNCHANGED <<shard_pos, shard_ts, shard_sl, shard_edges, merged_edges,
                   rebuilt_edges, graphVars, rowsVars, fnvVars, colVars, trVars>>

\* one shard runs the second pass of main over its own translation_senses
ShardEdges ==
    /\ shard_pc = "edges"
    /\ \E k \in shard_todo :
        /\ shard_edges' = [shard_edges EXCEPT
                              ![k] = EdgesFrom(EmptyDict, shard_ts[k], shard_ts[k].keys,
                                               merged_senses)]
        /\ shard_todo' = shard_todo \ {k}
    /\ UNCHANGED <<shard_pos, shard_ts, shard_sl, merged_ts, merged_sl, merged_senses,
                   merged_edges, rebuilt_edges, shard_pc,
                   graphVars, rowsVars, fnvVars, colVars, trVars>>

\* the shards' graph_languages are merged; the second pass of main is also run
\* over the merged translation_senses
MergeEdges ==
    /\ shard_pc = "edges"
    /\ shard_todo = {}
    /\ merged_edges' = MergeDicts(shard_edges[1], shard_edges[2])
    /\ rebuilt_edges' = EdgesFrom(EmptyDict, merged_ts, merged_ts.keys, merged_senses)
    /\ shard_pc' = "done"
    /\ UNCHANGED <<shard_pos, shard_ts, shard_sl, merged_ts, merged_sl, merged_senses,
                   shard_todo, shard_edges, graphVars, rowsVars, fnvVars, colVars, trVars>>

\* ------------------------------------------------------------------ get_rows over a file
\* rows of the files of SpecRows: three records, a row with a missing column,
\* a row with an extra column and a blank line
FileGoodRows == {<<1, 1, 1, 1, 1>>, <<1, 1, 2, 2, 1>>, <<2, 1, 1, 1, 1>>}
FileBadRows == {<<1, 1, 1, 1>>, <<1, 1, 1, 1, 1, 1>>, <<>>}
FileRows == FileGoodRows \cup FileBadRows
Files == UNION {[1..n -> FileRows] : n \in 0..MaxFileLen}

InitRows ==
    /\ InitGraph
    /\ InitFnvIdle
    /\ InitColIdle
    /\ InitTrIdle
    /\ InitShardsIdle
    /\ rfile \in Files
    /\ silent \in BOOLEAN
    /\ rpos = 0
    /\ yielded = <<>>

\* the generator hands the next row to the loop of its caller
GetRowsYield ==
    /\ pc = "read"
    /\ rpos < Len(rfile)
    /\ GetRowsOutcome(rfile[rpos + 1], silent) = "yield"
    /\ rpos' = rpos + 1
    /\ yielded' = Append(yielded, rfile[rpos + 1])
    /\ file' = file \cup {rfile[rpos + 1]}
    /\ Aggregate(rfile[rpos + 1])
    /\ UNCHANGED <<pc, sense_cutoff, edge_cutoff, senses, kpos, graph_languages,
                   ranked, out, rfile, silent, auxVars>>

GetRowsSkip ==
    /\ pc = "read"
    /\ rpos < Len(rfile)
    /\ GetRowsOutcome(rfile[rpos + 1], silent) = "skip"
    /\ rpos' = rpos + 1
    /\ file' = file \cup {rfile[rpos + 1]}
    /\ UNCHANGED <<pc, sense_cutoff, edge_cutoff, translation_senses,
                   sense_languages, senses, kpos, graph_languages, ranked, out,
                   rfile, silent, yielded, auxVars>>

\* InvalidRecord leaves the generator and its caller
GetRowsRaise ==
    /\ pc = "read"
    /\ rpos < Len(rfile)
    /\ GetRowsOutcome(rfile[rpos + 1], silent) = "raise"
    /\ rpos' = rpos + 1
    /\ file' = file \cup {rfile[rpos + 1]}
    /\ pc' = "raised"
    /\ UNCHANGED <<sense_cutoff, edge_cutoff, translation_senses,
                   sense_languages, senses, kpos, graph_languages, ranked, out,
                   rfile, silent, yielded, auxVars>>

GetRowsExhausted ==
    /\ pc = "read"
    /\ rpos = Len(rfile)
    /\ pc' = "filter"
    /\ UNCHANGED <<sense_cutoff, edge_cutoff, file, translation_senses,
                   sense_languages, senses, kpos, graph_languages, ranked, out,
                   rowsVars, auxVars>>

vars == <<graphVars, rowsVars, auxVars>>

Init == InitGraph /\ InitRowsIdle /\ InitFnvIdle /\ InitColIdle /\ InitTrIdle /\ InitShardsIdle

Next ==
    \/ ReadRow
    \/ EndOfFile
    \/ SenseCutoff
    \/ BuildEdges
    \/ EdgeCutoff
    \/ WriteRow
    \/ Return

Spec == Init /\ [][Next]_vars

\* a caller's loop over get_rows(tsv, silent), followed by the rest of main
NextRows ==
    \/ GetRowsYield
    \/ GetRowsSkip
    \/ GetRowsRaise
    \/ GetRowsExhausted
    \/ SenseCutoff
    \/ BuildEdges
    \/ EdgeCutoff
    \/ WriteRow
    \/ Return

SpecRows == InitRows /\ [][NextRows]_vars

\* ------------------------------------------------------------------ actions of fnv_1a
FnvStep ==
    /\ fnv_pc = "loop"
    /\ consumed < Len(data)
    /\ hash_' = FnvRound(hash_, data[consumed + 1], prime, MaskOf(size))
    /\ consumed' = consumed + 1
    /\ UNCHANGED <<data, prime, offset_basis, size, digest, fnv_pc, graphVars, rowsVars, colVars, trVars, shardVars>>

FnvReturn ==
    /\ fnv_pc = "loop"
    /\ consumed = Len(data)
    /\ digest' = ToBytes(hash_, size)
    /\ fnv_pc' = IF ToBytes(hash_, size) = OverflowError THEN "error" ELSE "done"
    /\ UNCHANGED <<data, prime, offset_basis, size, hash_, consumed, graphVars, rowsVars, colVars, trVars, shardVars>>

NextFnv ==
    \/ FnvStep
    \/ FnvReturn

InitSpecFnv == InitGraphIdle /\ InitRowsIdle /\ InitFnv /\ InitColIdle /\ InitTrIdle /\ InitShardsIdle

SpecFnv == InitSpecFnv /\ [][NextFnv]_vars

InitSpecCol == InitGraphIdle /\ InitRowsIdle /\ InitFnvIdle /\ InitCol /\ InitTrIdle /\ InitShardsIdle

SpecCol == InitSpecCol /\ [][NextCol]_vars

NextTr ==
    \/ TopYield
    \/ TopSkip
    \/ NextSense
    \/ SenseYield
    \/ SenseSkip
    \/ SynonymsOfSense
    \/ SynonymYield
    \/ TrReturn

InitSpecTr == InitGraphIdle /\ InitRowsIdle /\ InitFnvIdle /\ InitColIdle /\ InitTr /\ InitShardsIdle

SpecTr == InitSpecTr /\ [][NextTr]_vars

\* one run of main over the whole input beside a sharded run over the same rows
NextShard ==
    \/ ShardRead
    \/ EndOfFile
    \/ SenseCutoff
    \/ BuildEdges
    \/ EdgeCutoff
    \/ WriteRow
    \/ Return
    \/ MergeAggregates
    \/ ShardEdges
    \/ MergeEdges

InitSpecShard == InitGraph /\ InitRowsIdle /\ InitFnvIdle /\ InitColIdle /\ InitTrIdle /\ InitShards

SpecShard == InitSpecShard /\ [][NextShard]_vars

\* ================================================================== properties of main
\* The input as the claims speak of it, read off the rows of the file alone.
Records == {r \in file : Len(r) = 5}
InputSenses(l, w) == {<<r[3], r[4], r[5]>> : r \in {q \in Records : q[1] = l /\ q[2] = w}}
InputLanguages(c) == {r[1] : r \in {q \in Records : <<q[3], q[4], q[5]>> = c}}
InputRetained(c) == c \in {<<r[3], r[4], r[5]>> : r \in Records}
                    /\ Cardinality(InputLanguages(c)) >= sense_cutoff
\* the languages in which one word has both a and b, both retained
Colexifying(a, b) ==
    {r[1] : r \in {q \in Records :
        /\ a \in InputSenses(q[1], q[2])
        /\ b \in InputSenses(q[1], q[2])
        /\ InputRetained(a)
        /\ InputRetained(b)}}

SourceOf(row) == <<row[1], row[2], row[3]>>
TargetOf(row) == <<row[4], row[5], row[6]>>
WeightOf(row) == row[7]
Written == {out[i] : i \in 1..Len(out)}

\* C1: the weight written for an edge (A, B) is the number of distinct
\* languages in which some one word has both A and B among its senses, A and B
\* both retained by the sense cutoff; a language counts once per edge.
C1_WeightCountsLanguages ==
    \A row \in Written :
        WeightOf(row) = Cardinality(Colexifying(SourceOf(row), TargetOf(row)))

\* an edge is written whose pair is colexified by two words of one language
C1_Witness ==
    /\ pc = "done"
    /\ \E row \in Written : \E r1, r2 \in Records :
        /\ r1[1] = r2[1]
        /\ r1[2] # r2[2]
        /\ {SourceOf(row), TargetOf(row)} \subseteq InputSenses(r1[1], r1[2])
        /\ {SourceOf(row), TargetOf(row)} \subseteq InputSenses(r2[1], r2[2])
        /\ WeightOf(row) = 1

\* C2: every written edge has weight >= edge_cutoff, and both its endpoints
\* appear in at least sense_cutoff distinct languages of the input.
C2_CutoffsRespected ==
    \A row \in Written :
        /\ WeightOf(row) >= edge_cutoff
        /\ Cardinality(InputLanguages(SourceOf(row))) >= sense_cutoff
        /\ Cardinality(InputLanguages(TargetOf(row))) >= sense_cutoff

\* an edge is written while the sense cutoff excluded a concept that shares a
\* word with a retained one, and both cutoffs are positive
C2_Witness ==
    /\ pc = "done"
    /\ out # <<>>
    /\ edge_cutoff >= 2
    /\ sense_cutoff >= 2
    /\ \E r \in Records :
        /\ ~InputRetained(<<r[3], r[4], r[5]>>)
        /\ \E row \in Written : SourceOf(row) \in InputSenses(r[1], r[2])

\* C3: every key (source, target) of graph_languages has source < target in
\* the lexicographic order, so there is no self-pair and never both (A, B) and
\* (B, A).
C3_KeysStrictlyOrdered ==
    /\ \A e \in DOMAIN graph_languages.val :
        /\ TupleLess(e[1], e[2])
        /\ e[1] # e[2]
        /\ <<e[2], e[1]>> \notin DOMAIN graph_languages.val
    /\ \A i \in 1..Len(graph_languages.keys) :
        graph_languages.keys[i] \in DOMAIN graph_languages.val

\* edges exist, and the word just handled has exactly one retained sense
C3_Witness ==
    /\ pc = "edges"
    /\ kpos >= 1
    /\ graph_languages.keys # <<>>
    /\ Cardinality(translation_senses.val[translation_senses.keys[kpos]] \cap senses) = 1

\* C7: write_graph writes exactly one row per retained edge, and an earlier
\* row never has a smaller weight than a later one.
RetainedEdges ==
    {e \in DOMAIN graph_languages.val : Cardinality(graph_languages.val[e]) >= edge_cutoff}

C7_OneRowPerEdgeByWeight ==
    /\ \A i, j \in 1..Len(out) : i < j => WeightOf(out[i]) >= WeightOf(out[j])
    /\ \A i, j \in 1..Len(out) :
        i # j => <<SourceOf(out[i]), TargetOf(out[i])>> # <<SourceOf(out[j]), TargetOf(out[j])>>
    /\ \A row \in Written :
        /\ <<SourceOf(row), TargetOf(row)>> \in RetainedEdges
        /\ WeightOf(row) = Cardinality(graph_languages.val[<<SourceOf(row), TargetOf(row)>>])
    /\ pc = "done" => Len(out) = Cardinality(RetainedEdges)

\* the heavier of two written edges was inserted into graph_languages later
C7_Witness ==
    /\ pc = "done"
    /\ \E i, j \in 1..Len(graph_languages.keys) :
        /\ i < j
        /\ \E m, n \in 1..Len(out) :
            /\ m < n
            /\ <<SourceOf(out[m]), TargetOf(out[m])>> = graph_languages.keys[j]
            /\ <<SourceOf(out[n]), TargetOf(out[n])>> = graph_languages.keys[i]
            /\ WeightOf(out[m]) > WeightOf(out[n])

\* C10: no edge enters graph_languages before every record of the input is
\* aggregated and the retained concepts are computed, and from the start of
\* edge construction on translation_senses, sense_languages and the retained
\* concepts do not change.
Aggregated ==
    /\ \A r \in Records :
        /\ <<r[1], r[2]>> \in DOMAIN translation_senses.val
        /\ <<r[3], r[4], r[5]>> \in translation_senses.val[<<r[1], r[2]>>]
        /\ <<r[3], r[4], r[5]>> \in DOMAIN sense_languages
        /\ r[1] \in sense_languages[<<r[3], r[4], r[5]>>]
    /\ senses = {c \in DOMAIN sense_languages : InputRetained(c)}

ConstructionStarted == pc \in {"edges", "write", "done"}

C10_TwoStages ==
    /\ [](graph_languages # EmptyDict => ConstructionStarted /\ Aggregated)
    /\ [][graph_languages' # graph_languages => pc = "edges" /\ Aggregated]_vars
    /\ [][ConstructionStarted =>
            /\ ConstructionStarted'
            /\ file' = file
            /\ translation_senses' = translation_senses
            /\ sense_languages' = sense_languages
            /\ senses' = senses]_vars

\* edge construction ran over two words, with a concept dropped by the cutoff
C10_Witness ==
    /\ pc = "done"
    /\ kpos >= 2
    /\ graph_languages # EmptyDict
    /\ senses # DOMAIN sense_languages

\* ================================================================== properties of get_rows
WellFormed(row) == Len(row) = 5
Consumed == SubSeq(rfile, 1, rpos)
\* the rows before the first row that is not well formed
RECURSIVE GoodPrefix(_)
GoodPrefix(rows) ==
    IF rows = <<>> \/ ~WellFormed(Head(rows)) THEN <<>>
    ELSE <<Head(rows)>> \o GoodPrefix(Tail(rows))

\* C6: with silent=True get_rows skips every row whose field count is not 5
\* and yields the others unchanged and in order, so the graph of an input is
\* the graph of the input without its malformed rows; with silent=False it
\* raises at the first malformed row and yields no row after it.
C6_SkipOrRaise ==
    /\ silent =>
        /\ yielded = SelectSeq(Consumed, WellFormed)
        /\ pc # "raised"
        /\ pc = "done" =>
            out = MainOutput(SelectSeq(rfile, WellFormed), sense_cutoff, edge_cutoff)
    /\ ~silent =>
        /\ yielded = GoodPrefix(Consumed)
        /\ pc = "raised" <=> (rpos > 0 /\ ~WellFormed(rfile[rpos]))
        /\ pc = "raised" => yielded = GoodPrefix(rfile) /\ rpos = Len(yielded) + 1
        /\ pc # "raised" => rpos = Len(yielded)

\* a silent run skipped a malformed row between two records and wrote their
\* edge
C6_Witness ==
    /\ silent
    /\ pc = "done"
    /\ out # <<>>
    /\ Len(rfile) = 3
    /\ ~WellFormed(rfile[2])

\* a strict run raised with a record still unread behind the malformed row
C6_WitnessStrict ==
    /\ ~silent
    /\ pc = "raised"
    /\ yielded # <<>>
    /\ rpos < Len(rfile)
    /\ WellFormed(rfile[rpos + 1])

\* ================================================================== properties of fnv_1a
\* bit k of a XOR b is the sum of the two bits modulo 2
XorByBits(a, b) ==
    LET bit(x, k) == (x \div Pow2(k)) % 2
        S[k \in 0..16] == IF k = 16 THEN 0
                          ELSE ((bit(a, k) + bit(b, k)) % 2) * Pow2(k) + S[k + 1]
    IN  S[0]

\* the accumulator after a prefix of the input, by the arithmetic of the claim
RECURSIVE Accumulator(_)
Accumulator(n) ==
    IF n = 0 THEN offset_basis
    ELSE (XorByBits(Accumulator(n - 1), data[n]) * prime) % Pow2(8 * size)

RECURSIVE BigEndianValue(_)
BigEndianValue(bytes) ==
    IF bytes = <<>> THEN 0
    ELSE 256 * BigEndianValue(SubSeq(bytes, 1, Len(bytes) - 1)) + bytes[Len(bytes)]

\* C8: with offset_basis < 2^(8*size), after each byte the accumulator is
\* ((h XOR byte) * prime) mod 2^(8*size), so within [0, 2^(8*size)), starting
\* from offset_basis; the result is exactly size bytes, the big-endian
\* encoding of the final accumulator, and overflow is never an error.
C8_MaskedAccumulator ==
    (fnv_pc # "idle" /\ offset_basis < Pow2(8 * size)) =>
        /\ hash_ = Accumulator(consumed)
        /\ hash_ >= 0
        /\ hash_ < Pow2(8 * size)
        /\ fnv_pc # "error"
        /\ fnv_pc = "done" =>
            /\ consumed = Len(data)
            /\ digest # OverflowError
            /\ Len(digest) = size
            /\ \A i \in 1..size : digest[i] \in 0..255
            /\ BigEndianValue(digest) = hash_

\* two bytes hashed into two bytes, the last product overflowing the width,
\* and a digest whose two bytes differ
C8_Witness ==
    /\ fnv_pc = "done"
    /\ offset_basis < Pow2(8 * size)
    /\ size = 2
    /\ Len(data) >= 2
    /\ XorByBits(Accumulator(Len(data) - 1), data[Len(data)]) * prime >= Pow2(8 * size)
    /\ digest[1] # digest[2]
    /\ digest[1] # 0

\* ================================================================== properties of the audit
AuditRecords == {r \in crows : Len(r) = 4}
\* the pairs of the input, from its third and fourth column
InputPairs == {<<r[3], r[4]>> : r \in AuditRecords}
\* the identifiers that more than one distinct pair of the input has
SharedIds ==
    {ComputeConceptId(c[1], c[2]) : c \in
        {c1 \in InputPairs : \E c2 \in InputPairs :
            c2 # c1 /\ ComputeConceptId(c2[1], c2[2]) = ComputeConceptId(c1[1], c1[2])}}
FoundLines == {i \in 1..Len(stdout) : stdout[i].kind = "found"}
GroupLines == {i \in 1..Len(stdout) : stdout[i].kind = "group"}

C5_PairsFromWordAndSense ==
    col_pc \notin {"idle", "error"} =>
        /\ concepts = {<<r[2], r[3]>> : r \in AuditRecords}
        /\ \A k \in DOMAIN ids.val : \A c \in ids.val[k] :
            \E r \in AuditRecords : c = <<r[2], r[3]>> /\ k = ComputeConceptId(r[2], r[3])

\* C5 (amended): the pairs are built from the third and fourth column (sense
\* and gloss) alone, so rows agreeing there contribute one pair whatever their
\* language and word, and the identifier of a pair is compute_concept_id of
\* it: the hash of its first part, a tab and its second part.
C5_PairsFromLastTwoColumns ==
    col_pc \notin {"idle", "error"} =>
        /\ concepts = InputPairs
        /\ \A k \in DOMAIN ids.val : \A c \in ids.val[k] :
            c \in InputPairs /\ k = ComputeConceptId(c[1], c[2])
        /\ col_pc \in {"scan", "done"} =>
            \A c \in InputPairs :
                /\ ComputeConceptId(c[1], c[2]) \in DOMAIN ids.val
                /\ c \in ids.val[ComputeConceptId(c[1], c[2])]

\* two rows that differ in language and word and agree on the last two
\* columns were read and gave one identifier with one pair
C5_Witness ==
    /\ col_pc = "done"
    /\ \E r1, r2 \in AuditRecords :
        /\ r1[1] # r2[1]
        /\ r1[2] # r2[2]
        /\ r1[3] = r2[3]
        /\ r1[4] = r2[4]
        /\ r1[4] = <<233>>
    /\ Cardinality(concepts) = 1
    /\ Len(ids.keys) = 1

\* ================================================================== properties of get_translations
NonEmpty(x) == x # None /\ x # ""

\* C9: every translation that get_translations yields has a non-empty code,
\* a non-empty word and a non-empty sense.
C9_YieldedFieldsNonEmpty ==
    \A i \in 1..Len(emitted) :
        /\ NonEmpty(emitted[i].code)
        /\ NonEmpty(emitted[i].word)
        /\ NonEmpty(emitted[i].sense)

\* ================================================================== properties of a sharded run
\* both runs have finished
BothDone == pc = "done" /\ shard_pc = "done"

\* the edges of a graph_languages mapping with their weights, after the edge cutoff
EdgeRows(g) ==
    LET items == CounterOf(g, edge_cutoff)
    IN  {GraphRow(items[i]) : i \in 1..Len(items)}

\* the records of the input in an order fixed by the set of records alone
RECURSIVE SeqOfSet(_)
SeqOfSet(S) ==
    IF S = {} THEN <<>>
    ELSE LET x == CHOOSE y \in S : TRUE IN <<x>> \o SeqOfSet(S \ {x})

\* a (language, word) pair has records in both shards
SplitWord == \E t \in DOMAIN shard_ts[1].val : Has(shard_ts[2], t)

\* g holds no edge and no language of an edge that h does not hold
Within(g, h) ==
    \A e \in DOMAIN g.val : e \in DOMAIN h.val /\ g.val[e] \subseteq h.val[e]

\* C11 as stated: whatever the partition of the records into shards, the
\* key-wise union of the shards' edge-language-set mappings, built with the
\* concepts retained on the merged senseLanguages, holds the same edges with
\* the same weights as one run of main over the whole input.
C11_MergedShardEdgesEqualRun == BothDone => EdgeRows(merged_edges) = Written

\* C11: whatever the partition of the records into shards and the order of the
\* rows, the key-wise unions of the shards' translationSenses and
\* senseLanguages are those of one run of main over the whole input, and the
\* edges built from the merged translationSenses with the concepts retained
\* on the merged senseLanguages are the edges of that run, with the same
\* weights; the key-wise union of the shards' edge-language-set mappings holds
\* no edge and no language that the run does not, and it equals the run's
\* mapping when no (language, word) pair has records in more than one shard.
C11_MergedAggregatesEqualRun ==
    BothDone =>
        /\ merged_ts.val = translation_senses.val
        /\ merged_sl = sense_languages
        /\ merged_senses = senses
        /\ rebuilt_edges.val = graph_languages.val
        /\ EdgeRows(rebuilt_edges) = Written
        /\ graph_languages.val = MainGraphLanguages(SeqOfSet(Records), sense_cutoff).val
        /\ Within(merged_edges, graph_languages)
        /\ (~SplitWord => merged_edges.val = graph_languages.val)

\* a word has its two senses in different shards: the run over the whole
\* input writes their edge, as do the edges built from the merged
\* translationSenses, and no shard builds it
C11_Witness ==
    /\ BothDone
    /\ SplitWord
    /\ Written # {}
    /\ EdgeRows(rebuilt_edges) = Written
    /\ merged_edges = EmptyDict

\* no word is split, and the two languages of a written edge come from
\* different shards
C11_WitnessUnsplit ==
    /\ BothDone
    /\ ~SplitWord
    /\ shard_edges[1] # EmptyDict
    /\ shard_edges[2] # EmptyDict
    /\ sense_cutoff = 2
    /\ \E r \in Written : r \in EdgeRows(merged_edges) /\ WeightOf(r) = 2

====
